---- MODULE Spec2Model ----
(***************************************************************************)
(* WordTreasure front end: the game page view-model (Game component with   *)
(* hints and the ranking in-flight ref), the process-wide auth holder      *)
(* (AuthProvider) with the route guard, the response interceptor of the    *)
(* HTTP client, and the start button of the dashboard (Main component).    *)
(*                                                                         *)
(* React semantics used throughout: a useState setter changes the          *)
(* component's state; handlers and async continuations read the values     *)
(* captured by the render that created them (the "view"), which only the   *)
(* next render refreshes.  useRef cells are read and written immediately.  *)
(* Every network round trip is a suspension point: one action issues the   *)
(* request, another one resumes the continuation with the response.        *)
(***************************************************************************)
EXTENDS Integers, Sequences, FiniteSets, TLC

VARIABLES
    \* ---- game page (Game component) ----
    lifecycle,            \* "new" | "active" | "gone"
    initializingRef,      \* useRef(false)
    fetchingRankingsRef,  \* useRef(false)
    gameData,             \* useState(null)
    userInput,            \* useState('')
    attempts,             \* useState([])   the timeline, latest first
    rankings,             \* useState([])
    myLiveRank,           \* useState(null)
    loading,              \* useState(false)
    hintLoading,          \* useState(false)
    view,                 \* what the last render captured for the closures
    rankingInterval,      \* dailyWordId the live interval polls, or NoWord
    effectDep,            \* dependency value of the last ranking-effect run
    effectRuns,           \* how many times the mount effect ran
    initCurrent,          \* GET /api/game/current requests in flight
    initStart,            \* POST /api/game/start requests in flight
    attemptReqs,          \* POST /api/game/attempt in flight (closures)
    hintReqs,             \* POST /api/game/hint requests in flight
    rankReqs,             \* GET /api/game/rankings/live requests in flight
    timers,               \* pending success-transition timers (closures)
    nav,                  \* last navigate() call of the page
    notice,               \* last alert() the page showed
    lastOp,               \* outcome of the most recent handler call
    lastCurrent,          \* response the last GET /api/game/current delivered
    lastRanking,          \* payload of the last ranking fetch that succeeded
    hintTargets,          \* timeline lengths the outstanding hint requests were made at
    \* ---- auth holder (AuthProvider) ----
    user,                 \* useState(null)
    authLoading,          \* useState(true)
    checkingRef,          \* useRef(false)
    authView,             \* user and loading the last provider render captured
    probeReqs,            \* GET /api/auth/me issued by checkAuthStatus
    loginReqs,            \* POST /api/auth/login in flight
    recheckTimers,        \* login's delayed re-check timers pending
    recheckReqs,          \* GET /api/auth/me issued by login's re-check
    logoutReqs,           \* POST /api/auth/logout in flight
    serverSession,        \* identity the server-side session holds, or NoUser
    authLog,              \* last auth operation that completed
    guardOutput,          \* what PrivateRoute returned at the last render
    \* ---- HTTP client (axios instance) ----
    pathname,             \* window.location.pathname
    lastResponse,         \* the last response the response interceptor handled
    \* ---- dashboard (Main component) ----
    mainMounted,          \* the dashboard is on screen
    dashboardData,        \* useState(null)
    currentGameData,      \* useState(null)
    mainLoading,          \* useState(true)
    isStarting,           \* useState(false)
    dashboardReqs,        \* step fetchDashboardData is suspended at, or "idle"
    currentReqs,          \* GET /api/game/current of fetchCurrentGameData in flight
    startTimers,          \* pending 1000 ms timers of handleStartGame
    mainNav               \* last navigate() call of the dashboard

gameVars == <<lifecycle, initializingRef, fetchingRankingsRef, gameData,
              userInput, attempts, rankings, myLiveRank, loading, hintLoading,
              view, rankingInterval, effectDep, effectRuns, initCurrent,
              initStart, attemptReqs, hintReqs, rankReqs, timers, nav, notice,
              lastOp, lastCurrent, lastRanking, hintTargets>>

authVars == <<user, authLoading, checkingRef, authView, probeReqs, loginReqs,
              recheckTimers, recheckReqs, logoutReqs, serverSession, authLog,
              guardOutput>>

clientVars == <<pathname, lastResponse>>

mainVars == <<mainMounted, dashboardData, currentGameData, mainLoading,
              isStarting, dashboardReqs, currentReqs, startTimers, mainNav>>

shellVars == <<clientVars, mainVars>>

vars == <<gameVars, authVars, shellVars>>

----------------------------------------------------------------------------
(* Bounds of the model *)

MaxAttempts == 2      \* timeline length a guess may still be submitted at
MaxHints == 2         \* extra hints on the latest attempt a hint may be asked at
MaxInFlight == 2      \* concurrent requests of one kind the network carries
MaxEffectRuns == 2    \* runs of the mount effect on one component instance
MaxServerAttempts == 3 \* length of progress.attempts in the resume transform
MaxServerHints == 2   \* length of progress.hints in the resume transform
MaxAttemptNumber == 3 \* largest attemptNumber the server sends
MaxRequestedAt == 2   \* largest requestedAt timestamp the server sends

----------------------------------------------------------------------------
(* Values *)

NoNumber == -1        \* attemptNumber absent (undefined / null)
NoScore == -1         \* similarityScore / similarity absent
NoWord == 0           \* dailyWordId absent (falsy)
NoSession == 0        \* gameSessionId absent (falsy)
NoUser == 0           \* user === null
NoRank == 0           \* myRank absent (null)
NoData == [gameSessionId |-> NoSession, dailyWordId |-> NoWord,
           hasStarted |-> FALSE, isNull |-> TRUE]   \* gameData === null

SeqsUpTo(S, n) == UNION {[1..k -> S] : k \in 0..n}

\* Math.round for a non-negative score given in tenths: halves round up.
MathRound(tenths) == (tenths + 5) \div 10

\* similarity: Math.round(x.similarityScore ?? x.similarity ?? 0)
Similarity(x) ==
    MathRound(IF x.similarityScore # NoScore THEN x.similarityScore
              ELSE IF x.similarity # NoScore THEN x.similarity
              ELSE 0)

\* String.prototype.trim on a sequence of characters; " " is whitespace.
RECURSIVE TrimStart(_)
TrimStart(s) ==
    IF s # <<>> /\ Head(s) = " " THEN TrimStart(Tail(s)) ELSE s

RECURSIVE TrimEnd(_)
TrimEnd(s) ==
    IF s # <<>> /\ s[Len(s)] = " " THEN TrimEnd(SubSeq(s, 1, Len(s) - 1))
    ELSE s

Trim(s) == TrimEnd(TrimStart(s))

----------------------------------------------------------------------------
(* Resume transform of initializeGame *)

\* (b.attemptNumber ?? 0) - (a.attemptNumber ?? 0): the sort key of an attempt
AttemptKey(a) == IF a.attemptNumber = NoNumber THEN 0 ELSE a.attemptNumber

\* the attempt comparator with its operands swapped: oldest attempt first
AttemptCompareAscending(a, b) == AttemptKey(a) - AttemptKey(b)

\* comparator of the attempt sort: negative when a goes before b
AttemptCompare(a, b) == AttemptKey(b) - AttemptKey(a)

\* the hint comparator with its operands swapped: newest hint first
HintCompareDescending(a, b) == b.requestedAt - a.requestedAt

\* comparator of the hint sort: new Date(a.requestedAt) - new Date(b.requestedAt)
HintCompare(a, b) == a.requestedAt - b.requestedAt

\* Array.prototype.sort is stable: x, which came first in the input, goes in
\* front of the first element the comparator does not put before it.
RECURSIVE InsertAttempt(_, _)
InsertAttempt(x, s) ==
    IF s = <<>> THEN <<x>>
    ELSE IF AttemptCompare(x, Head(s)) <= 0 THEN <<x>> \o s
    ELSE <<Head(s)>> \o InsertAttempt(x, Tail(s))

RECURSIVE SortAttempts(_)
SortAttempts(s) ==
    IF s = <<>> THEN <<>>
    ELSE InsertAttempt(Head(s), SortAttempts(Tail(s)))

RECURSIVE InsertHint(_, _)
InsertHint(x, s) ==
    IF s = <<>> THEN <<x>>
    ELSE IF HintCompare(x, Head(s)) <= 0 THEN <<x>> \o s
    ELSE <<Head(s)>> \o InsertHint(x, Tail(s))

RECURSIVE SortHints(_)
SortHints(s) ==
    IF s = <<>> THEN <<>>
    ELSE InsertHint(Head(s), SortHints(Tail(s)))

\* .map((attempt) => ({...attempt, similarity, extraHints: [], timestamp}))
RestoreAttempt(a) ==
    [attemptNumber |-> a.attemptNumber,
     userInput     |-> a.userInput,
     similarity    |-> Similarity(a),
     isCorrect     |-> FALSE,
     hint          |-> a.hint,
     extraHints    |-> <<>>]

\* restoredAttempts: sorted copy of progress.attempts, mapped
RestoredAttempts(serverAttempts) ==
    LET sorted == SortAttempts(serverAttempts)
    IN  [i \in 1..Len(sorted) |-> RestoreAttempt(sorted[i])]

\* extraHintTexts: hint contents in ascending requestedAt order
ExtraHintTexts(serverHints) ==
    LET sortedHints == SortHints(serverHints)
    IN  [i \in 1..Len(sortedHints) |-> sortedHints[i].hintContent]

\* a transform that attaches the hints without asking whether an attempt
\* exists: with no attempts it makes one up to carry them
RestoreTimelineHintsUnguarded(progress) ==
    LET restoredAttempts == RestoredAttempts(progress.attempts)
        restoredHints == progress.hints
    IN  IF Len(restoredHints) > 0
        THEN IF Len(restoredAttempts) > 0
             THEN [restoredAttempts EXCEPT ![1].extraHints =
                       restoredAttempts[1].extraHints \o ExtraHintTexts(restoredHints)]
             ELSE <<[attemptNumber |-> NoNumber, userInput |-> <<>>,
                     similarity |-> 0, isCorrect |-> FALSE, hint |-> FALSE,
                     extraHints |-> ExtraHintTexts(restoredHints)]>>
        ELSE restoredAttempts

\* The timeline setAttempts receives for a progress object.
RestoreTimeline(progress) ==
    LET restoredAttempts == RestoredAttempts(progress.attempts)
        restoredHints == progress.hints
    IN  IF Len(restoredAttempts) > 0 /\ Len(restoredHints) > 0
        THEN [restoredAttempts EXCEPT ![1].extraHints =
                  restoredAttempts[1].extraHints \o ExtraHintTexts(restoredHints)]
        ELSE restoredAttempts

----------------------------------------------------------------------------
(* Game page: values the server and the user supply *)

\* what the user can type: nothing, whitespace only, a padded word
Inputs == {<<>>, <<" ">>, <<" ", "a", " ">>}

NoInput == <<>>                             \* userInput absent on a result
GameScores == {745}                         \* similarityScore 74.5
HintTexts == {"h1", "h2"}

\* one attempt of progress.attempts as the server sends it
ServerAttempt(n, w, sc, h) ==
    [attemptNumber |-> n, userInput |-> w, similarityScore |-> sc,
     similarity |-> NoScore, hint |-> h]

EmptyProgress == [attempts |-> <<>>, hints |-> <<>>]

\* response of GET /api/game/current
CurrentResponse(ok, isNull, started, sid, wid, hasProgress, progress) ==
    [ok |-> ok, isNull |-> isNull, hasStarted |-> started,
     gameSessionId |-> sid, dailyWordId |-> wid,
     hasProgress |-> hasProgress, progress |-> progress]

FailedCurrent ==
    CurrentResponse(FALSE, TRUE, FALSE, NoSession, NoWord, FALSE, EmptyProgress)

NullCurrent ==
    CurrentResponse(TRUE, TRUE, FALSE, NoSession, NoWord, FALSE, EmptyProgress)

\* the session object setGameData stores
Session(sid, wid, started) ==
    [gameSessionId |-> sid, dailyWordId |-> wid, hasStarted |-> started,
     isNull |-> FALSE]

\* response of POST /api/game/start: failure, or the new session
StartResponses ==
    {[ok |-> FALSE, data |-> NoData], [ok |-> TRUE, data |-> Session(1, 1, TRUE)]}

\* response of POST /api/game/attempt: failure, or a scored result
AttemptResult(correct, h, sc) ==
    [isCorrect |-> correct, hint |-> h, similarityScore |-> sc,
     similarity |-> NoScore]

AttemptResponses ==
    {[ok |-> FALSE, data |-> AttemptResult(FALSE, FALSE, NoScore)]}
    \cup {[ok |-> TRUE, data |-> AttemptResult(c, h, sc)] :
            c \in BOOLEAN, h \in {TRUE}, sc \in GameScores}

\* response of POST /api/game/hint
HintResponses ==
    {[ok |-> FALSE, hintText |-> "h1"]}
    \cup {[ok |-> TRUE, hintText |-> t] : t \in HintTexts}

\* response of GET /api/game/rankings/live: failure, null data, or a payload
RankPayload(isNull, r, m) == [isNull |-> isNull, rankings |-> r, myRank |-> m]

RankResponses ==
    {[ok |-> FALSE, data |-> RankPayload(TRUE, <<>>, NoRank)],
     [ok |-> TRUE, data |-> RankPayload(TRUE, <<>>, NoRank)],
     [ok |-> TRUE, data |-> RankPayload(FALSE, <<>>, NoRank)],
     [ok |-> TRUE, data |-> RankPayload(FALSE, <<7>>, 3)]}

NoNav == [to |-> "none", attempts |-> 0, attemptHistory |-> <<>>]
Navigate(to, count, history) ==
    [to |-> to, attempts |-> count, attemptHistory |-> history]

\* record of a handler call: which handler, whether the guess it read was
\* blank, and whether the call issued a request
OpRecord(op, blank, issued) == [op |-> op, blank |-> blank, issued |-> issued]

----------------------------------------------------------------------------
(* Game page: construction and rendering *)

\* the values a render captures for the handlers it creates
Snapshot ==
    [gameData |-> gameData, userInput |-> userInput, attempts |-> attempts,
     loading |-> loading, hintLoading |-> hintLoading]

InitGame ==
    /\ lifecycle = "new"
    /\ initializingRef = FALSE
    /\ fetchingRankingsRef = FALSE
    /\ gameData = NoData
    /\ userInput = <<>>
    /\ attempts = <<>>
    /\ rankings = <<>>
    /\ myLiveRank = NoRank
    /\ loading = FALSE
    /\ hintLoading = FALSE
    /\ view = [gameData |-> NoData, userInput |-> <<>>, attempts |-> <<>>,
               loading |-> FALSE, hintLoading |-> FALSE]
    /\ rankingInterval = NoWord
    /\ effectDep = NoWord
    /\ effectRuns = 0
    /\ initCurrent = 0
    /\ initStart = 0
    /\ attemptReqs = <<>>
    /\ hintReqs = 0
    /\ rankReqs = 0
    /\ timers = <<>>
    /\ nav = NoNav
    /\ notice = "none"
    /\ lastOp = OpRecord("none", FALSE, FALSE)
    /\ lastCurrent = FailedCurrent
    /\ lastRanking = RankPayload(TRUE, <<>>, NoRank)
    /\ hintTargets = {}

\* fetchRankings without the in-flight ref (the older Game page)
FetchRankingsUnguarded(dailyWordId) ==
    /\ IF dailyWordId = NoWord \/ rankReqs >= MaxInFlight
       THEN UNCHANGED <<fetchingRankingsRef, rankReqs>>
       ELSE /\ fetchingRankingsRef' = TRUE
            /\ rankReqs' = rankReqs + 1
    /\ lastOp' = OpRecord("fetchRankings", FALSE, rankReqs' > rankReqs)

\* fetchRankings(dailyWordId) up to its await
FetchRankings(dailyWordId) ==
    /\ IF dailyWordId = NoWord \/ fetchingRankingsRef
       THEN UNCHANGED <<fetchingRankingsRef, rankReqs>>
       ELSE /\ fetchingRankingsRef' = TRUE
            /\ rankReqs' = rankReqs + 1
    /\ lastOp' = OpRecord("fetchRankings", FALSE, rankReqs' > rankReqs)

\* the ranking effect body for the gameData a render captured
RankingEffect(data) ==
    IF data.dailyWordId = NoWord
    THEN /\ rankingInterval' = NoWord
         /\ UNCHANGED <<fetchingRankingsRef, rankReqs, lastOp>>
    ELSE /\ FetchRankings(data.dailyWordId)
         /\ rankingInterval' = data.dailyWordId

\* the mount effect body: ref guard, then initializeGame up to its first await
MountEffectBody(ref) ==
    IF ref
    THEN /\ initializingRef' = ref
         /\ UNCHANGED initCurrent
    ELSE /\ initializingRef' = TRUE
         /\ initCurrent' = initCurrent + 1

\* first commit: both effects run (gameData is still null)
Mount ==
    /\ lifecycle = "new"
    /\ lifecycle' = "active"
    /\ effectRuns' = effectRuns + 1
    /\ MountEffectBody(initializingRef)
    /\ RankingEffect(view.gameData)
    /\ effectDep' = view.gameData.dailyWordId
    /\ UNCHANGED <<gameData, userInput, attempts, rankings, myLiveRank, loading,
                   hintLoading, view, initStart, attemptReqs, hintReqs, timers,
                   nav, notice>>
    /\ UNCHANGED <<lastCurrent, lastRanking, hintTargets, authVars, shellVars>>

\* the effects are cleaned up and run again on the same instance: the mount
\* cleanup resets initializingRef, the ranking cleanup clears the interval
Remount ==
    /\ lifecycle = "active"
    /\ effectRuns < MaxEffectRuns
    /\ effectRuns' = effectRuns + 1
    /\ MountEffectBody(FALSE)
    /\ RankingEffect(view.gameData)
    /\ effectDep' = view.gameData.dailyWordId
    /\ UNCHANGED <<lifecycle, gameData, userInput, attempts, rankings,
                   myLiveRank, loading, hintLoading, view, initStart,
                   attemptReqs, hintReqs, timers, nav, notice>>
    /\ UNCHANGED <<lastCurrent, lastRanking, hintTargets, authVars, shellVars>>

\* an unmount whose ranking effect returned no cleanup: the interval lives on
UnmountKeepsInterval ==
    /\ lifecycle = "active"
    /\ lifecycle' = "gone"
    /\ initializingRef' = FALSE
    /\ UNCHANGED <<fetchingRankingsRef, gameData, userInput, attempts, rankings,
                   myLiveRank, loading, hintLoading, view, rankingInterval,
                   effectDep, effectRuns, initCurrent, initStart, attemptReqs,
                   hintReqs, rankReqs, timers, nav, notice, lastOp>>
    /\ UNCHANGED <<lastCurrent, lastRanking, hintTargets, authVars, shellVars>>

\* the page leaves the tree: cleanups only
Unmount ==
    /\ lifecycle = "active"
    /\ lifecycle' = "gone"
    /\ initializingRef' = FALSE
    /\ rankingInterval' = NoWord
    /\ UNCHANGED <<fetchingRankingsRef, gameData, userInput, attempts, rankings,
                   myLiveRank, loading, hintLoading, view, effectDep,
                   effectRuns, initCurrent, initStart, attemptReqs, hintReqs,
                   rankReqs, timers, nav, notice, lastOp>>
    /\ UNCHANGED <<lastCurrent, lastRanking, hintTargets, authVars, shellVars>>

\* a re-render: the closures see the current state; the ranking effect is
\* cleaned up and run again when gameData?.dailyWordId changed
Render ==
    /\ lifecycle = "active"
    /\ view # Snapshot
    /\ view' = Snapshot
    /\ IF gameData.dailyWordId # effectDep
       THEN /\ RankingEffect(gameData)
            /\ effectDep' = gameData.dailyWordId
       ELSE UNCHANGED <<rankingInterval, effectDep, fetchingRankingsRef,
                        rankReqs, lastOp>>
    /\ UNCHANGED <<lifecycle, initializingRef, gameData, userInput, attempts,
                   rankings, myLiveRank, loading, hintLoading, effectRuns,
                   initCurrent, initStart, attemptReqs, hintReqs, timers, nav,
                   notice>>
    /\ UNCHANGED <<lastCurrent, lastRanking, hintTargets, authVars, shellVars>>

----------------------------------------------------------------------------
(* Game page: session initialization *)

\* the catch block of initializeGame
InitFailed ==
    /\ notice' = "init"
    /\ nav' = Navigate("/main", 0, <<>>)

\* a resume test that looks at hasStarted alone
IsResumeAnyStarted(resp) == ~resp.isNull /\ resp.hasStarted

\* current?.hasStarted && current?.gameSessionId
IsResume(resp) ==
    ~resp.isNull /\ resp.hasStarted /\ resp.gameSessionId # NoSession

\* continuation of initializeGame after GET /api/game/current
InitCurrentResolve(resp) ==
    /\ initCurrent > 0
    /\ initCurrent' = initCurrent - 1
    /\ IF ~resp.ok
       THEN /\ InitFailed
            /\ UNCHANGED <<gameData, attempts, initStart>>
       ELSE IF IsResume(resp)
       THEN /\ gameData' = Session(resp.gameSessionId, resp.dailyWordId,
                                   resp.hasStarted)
            /\ attempts' = IF resp.hasProgress
                           THEN RestoreTimeline(resp.progress)
                           ELSE <<>>
            /\ UNCHANGED <<initStart, notice, nav>>
       ELSE IF resp.isNull
       THEN \* current.dailyWordId throws on a null current
            /\ InitFailed
            /\ UNCHANGED <<gameData, attempts, initStart>>
       ELSE /\ initStart' = initStart + 1
            /\ UNCHANGED <<gameData, attempts, notice, nav>>
    /\ UNCHANGED <<lifecycle, initializingRef, fetchingRankingsRef, userInput,
                   rankings, myLiveRank, loading, hintLoading, view,
                   rankingInterval, effectDep, effectRuns, attemptReqs,
                   hintReqs, rankReqs, timers, lastOp>>
    /\ lastCurrent' = resp
    /\ UNCHANGED <<lastRanking, hintTargets, authVars, shellVars>>

\* continuation of initializeGame after POST /api/game/start
InitStartResolve(resp) ==
    /\ initStart > 0
    /\ initStart' = initStart - 1
    /\ IF resp.ok
       THEN /\ gameData' = resp.data
            /\ UNCHANGED <<notice, nav>>
       ELSE /\ InitFailed
            /\ UNCHANGED gameData
    /\ UNCHANGED <<lifecycle, initializingRef, fetchingRankingsRef, userInput,
                   attempts, rankings, myLiveRank, loading, hintLoading, view,
                   rankingInterval, effectDep, effectRuns, initCurrent,
                   attemptReqs, hintReqs, rankReqs, timers, lastOp>>
    /\ UNCHANGED <<lastCurrent, lastRanking, hintTargets, authVars, shellVars>>

----------------------------------------------------------------------------
(* Game page: guess submission *)

\* the page is rendered and the router has not been told to leave it: the
\* user can reach its controls
OnScreen == lifecycle = "active" /\ nav = NoNav

\* onChange of the guess input (the input is disabled while loading)
SetUserInput(v) ==
    /\ OnScreen
    /\ ~view.loading
    /\ userInput' = v
    /\ UNCHANGED <<lifecycle, initializingRef, fetchingRankingsRef, gameData,
                   attempts, rankings, myLiveRank, loading, hintLoading, view,
                   rankingInterval, effectDep, effectRuns, initCurrent,
                   initStart, attemptReqs, hintReqs, rankReqs, timers, nav,
                   notice, lastOp>>
    /\ UNCHANGED <<lastCurrent, lastRanking, hintTargets, authVars, shellVars>>

\* the guard of handleSubmit without the trim: only '' is rejected
SubmitRejectedUntrimmed(input, isLoading) == input = <<>> \/ isLoading

\* the guard of handleSubmit: TRUE when the call returns early
SubmitRejected(input, isLoading) == Trim(input) = <<>> \/ isLoading

\* handleSubmit up to its await, with the values its closure captured
HandleSubmit ==
    /\ OnScreen
    /\ Len(attempts) + Len(attemptReqs) < MaxAttempts
    /\ Len(attemptReqs) < MaxInFlight
    /\ IF SubmitRejected(view.userInput, view.loading)
       THEN UNCHANGED <<loading, attemptReqs>>
       ELSE /\ loading' = TRUE
            /\ attemptReqs' = Append(attemptReqs,
                   [gameSessionId |-> view.gameData.gameSessionId,
                    dailyWordId   |-> view.gameData.dailyWordId,
                    userInput     |-> Trim(view.userInput),
                    attempts      |-> view.attempts])
    /\ lastOp' = OpRecord("handleSubmit", Trim(view.userInput) = <<>>,
                          Len(attemptReqs') > Len(attemptReqs))
    /\ UNCHANGED <<lifecycle, initializingRef, fetchingRankingsRef, gameData,
                   userInput, attempts, rankings, myLiveRank, hintLoading,
                   view, rankingInterval, effectDep, effectRuns, initCurrent,
                   initStart, hintReqs, rankReqs, timers, nav, notice>>
    /\ UNCHANGED <<lastCurrent, lastRanking, hintTargets, authVars, shellVars>>

RemoveAt(s, i) == SubSeq(s, 1, i - 1) \o SubSeq(s, i + 1, Len(s))

\* normalizedResult: {...result, similarity}
NormalizedResult(result) ==
    [attemptNumber |-> NoNumber,
     userInput     |-> NoInput,
     similarity    |-> Similarity(result),
     isCorrect     |-> result.isCorrect,
     hint          |-> result.hint,
     extraHints    |-> <<>>]

\* the state the success timer's navigate() will carry, built from the
\* closure of the handleSubmit call
SuccessTransition(req) ==
    Navigate("/result/success", Len(req.attempts) + 1, req.attempts)

\* a catch block that also clears the input buffer
SubmitFailedInputCleared ==
    /\ notice' = "submit"
    /\ userInput' = <<>>
    /\ UNCHANGED <<attempts, fetchingRankingsRef, rankReqs, lastOp, timers>>

\* the catch block of handleSubmit: the alert, and no state setter
SubmitFailed ==
    /\ notice' = "submit"
    /\ UNCHANGED <<attempts, userInput, fetchingRankingsRef, rankReqs, lastOp,
                   timers>>

\* continuation of handleSubmit after POST /api/game/attempt
SubmitResolve(i, resp) ==
    /\ i \in 1..Len(attemptReqs)
    /\ attemptReqs' = RemoveAt(attemptReqs, i)
    /\ IF resp.ok
       THEN /\ attempts' = <<NormalizedResult(resp.data)>> \o attempts
            /\ userInput' = <<>>
            /\ IF attemptReqs[i].dailyWordId # NoWord
               THEN FetchRankings(attemptReqs[i].dailyWordId)
               ELSE UNCHANGED <<fetchingRankingsRef, rankReqs, lastOp>>
            /\ timers' = IF resp.data.isCorrect
                         THEN Append(timers, SuccessTransition(attemptReqs[i]))
                         ELSE timers
            /\ UNCHANGED notice
       ELSE SubmitFailed
    /\ loading' = FALSE
    /\ UNCHANGED <<lifecycle, initializingRef, gameData, rankings, myLiveRank,
                   hintLoading, view, rankingInterval, effectDep, effectRuns,
                   initCurrent, initStart, hintReqs, nav>>
    /\ UNCHANGED <<lastCurrent, lastRanking, hintTargets, authVars, shellVars>>

\* the 1500 ms timer of a correct guess fires
SuccessTimerFire(i) ==
    /\ i \in 1..Len(timers)
    /\ nav' = timers[i]
    /\ timers' = RemoveAt(timers, i)
    /\ UNCHANGED <<lifecycle, initializingRef, fetchingRankingsRef, gameData,
                   userInput, attempts, rankings, myLiveRank, loading,
                   hintLoading, view, rankingInterval, effectDep, effectRuns,
                   initCurrent, initStart, attemptReqs, hintReqs, rankReqs,
                   notice, lastOp>>
    /\ UNCHANGED <<lastCurrent, lastRanking, hintTargets, authVars, shellVars>>

----------------------------------------------------------------------------
(* Game page: supplementary hints *)

\* the guard of handleRequestHint: TRUE when the call returns early
HintRejected(data, isHintLoading) ==
    data.gameSessionId = NoSession \/ isHintLoading

\* handleRequestHint up to its await; the button exists only on a rendered
\* latest attempt that has a base hint
HandleRequestHint ==
    /\ OnScreen
    /\ view.attempts # <<>>
    /\ view.attempts[1].hint
    /\ hintReqs < MaxInFlight
    /\ attempts # <<>> => Len(attempts[1].extraHints) + hintReqs < MaxHints
    /\ IF HintRejected(view.gameData, view.hintLoading)
       THEN UNCHANGED <<hintLoading, hintReqs>>
       ELSE /\ hintLoading' = TRUE
            /\ hintReqs' = hintReqs + 1
    /\ lastOp' = OpRecord("handleRequestHint", FALSE, hintReqs' > hintReqs)
    /\ UNCHANGED <<lifecycle, initializingRef, fetchingRankingsRef, gameData,
                   userInput, attempts, rankings, myLiveRank, loading, view,
                   rankingInterval, effectDep, effectRuns, initCurrent,
                   initStart, attemptReqs, rankReqs, timers, nav, notice>>
    /\ hintTargets' = IF hintReqs' > hintReqs
                      THEN hintTargets \cup {Len(attempts)}
                      ELSE hintTargets
    /\ UNCHANGED <<lastCurrent, lastRanking, authVars, shellVars>>

\* an updater that appends the hint to every attempt of the timeline
AttachHintEverywhere(prev, hintText) ==
    [i \in 1..Len(prev) |->
        [prev[i] EXCEPT !.extraHints = Append(@, hintText)]]

\* setAttempts(prev => ...) of a hint response
AttachHint(prev, hintText) ==
    IF prev = <<>> THEN prev
    ELSE [prev EXCEPT ![1].extraHints = Append(@, hintText)]

\* continuation of handleRequestHint after POST /api/game/hint
HintResolve(resp) ==
    /\ hintReqs > 0
    /\ hintReqs' = hintReqs - 1
    /\ IF resp.ok
       THEN /\ attempts' = AttachHint(attempts, resp.hintText)
            /\ UNCHANGED notice
       ELSE /\ notice' = "hint"
            /\ UNCHANGED attempts
    /\ hintLoading' = FALSE
    /\ UNCHANGED <<lifecycle, initializingRef, fetchingRankingsRef, gameData,
                   userInput, rankings, myLiveRank, loading, view,
                   rankingInterval, effectDep, effectRuns, initCurrent,
                   initStart, attemptReqs, rankReqs, timers, nav, lastOp>>
    /\ hintTargets' = IF hintReqs' = 0 THEN {} ELSE hintTargets
    /\ UNCHANGED <<lastCurrent, lastRanking, authVars, shellVars>>

----------------------------------------------------------------------------
(* Game page: live ranking polling *)

\* the interval callback: () => fetchRankings(gameData.dailyWordId)
RankingTick ==
    /\ rankingInterval # NoWord
    /\ FetchRankings(rankingInterval)
    /\ UNCHANGED <<lifecycle, initializingRef, gameData, userInput, attempts,
                   rankings, myLiveRank, loading, hintLoading, view,
                   rankingInterval, effectDep, effectRuns, initCurrent,
                   initStart, attemptReqs, hintReqs, timers, nav, notice>>
    /\ UNCHANGED <<lastCurrent, lastRanking, hintTargets, authVars, shellVars>>

\* a continuation that resets the in-flight ref in the try block only
RankSettleOnSuccessOnly(ok) ==
    fetchingRankingsRef' = IF ok THEN FALSE ELSE fetchingRankingsRef

\* the finally block of fetchRankings
RankSettle(ok) == fetchingRankingsRef' = FALSE

\* a continuation that merges the new list into the one on display
RankResolveMerging(resp) ==
    /\ rankReqs > 0
    /\ rankReqs' = rankReqs - 1
    /\ IF resp.ok
       THEN /\ rankings' = IF resp.data.isNull THEN rankings
                           ELSE rankings \o resp.data.rankings
            /\ myLiveRank' = IF resp.data.isNull THEN NoRank ELSE resp.data.myRank
       ELSE UNCHANGED <<rankings, myLiveRank>>
    /\ RankSettle(resp.ok)
    /\ UNCHANGED <<lifecycle, initializingRef, gameData, userInput, attempts,
                   loading, hintLoading, view, rankingInterval, effectDep,
                   effectRuns, initCurrent, initStart, attemptReqs, hintReqs,
                   timers, nav, notice, lastOp>>
    /\ lastRanking' = IF resp.ok THEN resp.data ELSE lastRanking
    /\ UNCHANGED <<lastCurrent, hintTargets, authVars, shellVars>>

\* continuation of fetchRankings after GET /api/game/rankings/live
RankResolve(resp) ==
    /\ rankReqs > 0
    /\ rankReqs' = rankReqs - 1
    /\ IF resp.ok
       THEN /\ rankings' = IF resp.data.isNull THEN <<>> ELSE resp.data.rankings
            /\ myLiveRank' = IF resp.data.isNull THEN NoRank ELSE resp.data.myRank
       ELSE UNCHANGED <<rankings, myLiveRank>>
    /\ RankSettle(resp.ok)
    /\ UNCHANGED <<lifecycle, initializingRef, gameData, userInput, attempts,
                   loading, hintLoading, view, rankingInterval, effectDep,
                   effectRuns, initCurrent, initStart, attemptReqs, hintReqs,
                   timers, nav, notice, lastOp>>
    /\ lastRanking' = IF resp.ok THEN resp.data ELSE lastRanking
    /\ UNCHANGED <<lastCurrent, hintTargets, authVars, shellVars>>

----------------------------------------------------------------------------
(* Initial state: both components as constructed *)

Users == {1}

AuthSnapshot(mounted) == [user |-> user, loading |-> authLoading, mounted |-> mounted]

NoResponse == [status |-> 0, at |-> "", failed |-> FALSE,
               redirected |-> FALSE, settled |-> "none"]

NoDashboard == [isNull |-> TRUE, latest |-> "none", hasPlayedToday |-> FALSE]

NoCurrentGame == [isNull |-> TRUE, hasSession |-> FALSE, status |-> "none",
                  isCompleted |-> FALSE]

\* no PrivateRoute has rendered yet
NotRendered == [element |-> "none", to |-> "", replace |-> FALSE]

\* last completed operation, and whether a status probe has ever resolved
AuthRecord(op, probed) == [op |-> op, probed |-> probed]

InitAuth ==
    /\ user = NoUser
    /\ authLoading = TRUE
    /\ checkingRef = FALSE
    /\ authView = [user |-> NoUser, loading |-> TRUE, mounted |-> FALSE]
    /\ probeReqs = 0
    /\ loginReqs = 0
    /\ recheckTimers = 0
    /\ recheckReqs = 0
    /\ logoutReqs = 0
    /\ serverSession \in {NoUser} \cup Users
    /\ authLog = AuthRecord("none", FALSE)
    /\ guardOutput = NotRendered

\* the document is loaded at the root path; no response handled yet
InitClient ==
    /\ pathname = "/"
    /\ lastResponse = NoResponse

\* the dashboard before its first mount
InitMain ==
    /\ mainMounted = FALSE
    /\ dashboardData = NoDashboard
    /\ currentGameData = NoCurrentGame
    /\ mainLoading = TRUE
    /\ isStarting = FALSE
    /\ dashboardReqs = "idle"
    /\ currentReqs = 0
    /\ startTimers = 0
    /\ mainNav = "none"

Init == InitGame /\ InitAuth /\ InitClient /\ InitMain

\* the game page opens in a process whose auth holder plays no part
InitPage == Init /\ serverSession = NoUser

----------------------------------------------------------------------------
(* SpecResume: the resume transform over the progress objects a server    *)
(* can send                                                                *)

\* userInput of the i-th attempt of a server list: i letters
WordOf(i) == [j \in 1..i |-> "a"]

\* hintContent of the i-th hint of a server list
HintNames == <<"h1", "h2", "h3", "h4">>

\* similarityScore of the i-th attempt of a server list: absent on the odd
\* positions, 74.5 on the even ones
ScoreOf(i) == IF i % 2 = 1 THEN NoScore ELSE 745

\* progress.attempts: any attemptNumber (or none) at any position
ResumeAttemptLists ==
    UNION {{[i \in 1..k |-> ServerAttempt(n[i], WordOf(i), ScoreOf(i), TRUE)] :
                n \in [1..k -> {NoNumber} \cup 1..MaxAttemptNumber]} :
           k \in 0..MaxServerAttempts}

\* progress.hints: any requestedAt at any position
ResumeHintLists ==
    UNION {{[i \in 1..k |-> [requestedAt |-> t[i], hintContent |-> HintNames[i]]] :
                t \in [1..k -> 1..MaxRequestedAt]} :
           k \in 0..MaxServerHints}

ResumeResponse(a, h) ==
    CurrentResponse(TRUE, FALSE, TRUE, 1, 1, TRUE, [attempts |-> a, hints |-> h])

NextResume ==
    \/ Mount
    \/ /\ initCurrent > 0
       /\ \E a \in ResumeAttemptLists, h \in ResumeHintLists :
             InitCurrentResolve(ResumeResponse(a, h))

SpecResume == InitPage /\ [][NextResume]_vars

\* the last GET /api/game/current reported a started session with progress
Resumed ==
    /\ lastCurrent.ok
    /\ ~lastCurrent.isNull
    /\ lastCurrent.hasStarted
    /\ lastCurrent.gameSessionId # NoSession
    /\ lastCurrent.hasProgress

\* what identifies an attempt across the transform
AttemptIdentity(a) == <<a.attemptNumber, a.userInput>>

Occurrences(x, s) == Cardinality({i \in DOMAIN s : AttemptIdentity(s[i]) = x})

IsPermutationOf(s, t) ==
    /\ Len(s) = Len(t)
    /\ \A i \in DOMAIN t :
          Occurrences(AttemptIdentity(t[i]), s) = Occurrences(AttemptIdentity(t[i]), t)

NonIncreasingByNumber(s) ==
    \A i, j \in DOMAIN s : i < j => AttemptKey(s[i]) >= AttemptKey(s[j])

\* C1: on resume the restored timeline is a permutation of the server's
\* attempt list in non-increasing attemptNumber order (absent counts as 0),
\* so index 0 holds an attempt with the maximum attemptNumber.
ResumeTimelineSortedDescending ==
    Resumed =>
        /\ IsPermutationOf(attempts, lastCurrent.progress.attempts)
        /\ NonIncreasingByNumber(attempts)
        /\ \A i \in DOMAIN lastCurrent.progress.attempts :
              AttemptKey(attempts[1]) >= AttemptKey(lastCurrent.progress.attempts[i])

\* the server sent the attempts in an order that is not the display order,
\* one of them without attemptNumber, and the timeline starts with number 3
ResumeUnsortedInputWitness ==
    /\ Resumed
    /\ Len(attempts) = 3
    /\ ~NonIncreasingByNumber(lastCurrent.progress.attempts)
    /\ \E i \in 1..3 : lastCurrent.progress.attempts[i].attemptNumber = NoNumber
    /\ lastCurrent.progress.attempts[1].attemptNumber = 1
    /\ attempts[1].attemptNumber = 3

Injections(n) == {p \in [1..n -> 1..n] : \A i, j \in 1..n : p[i] = p[j] => i = j}

\* texts is the content sequence of hints rearranged by ascending requestedAt
IsChronological(texts, hints) ==
    /\ Len(texts) = Len(hints)
    /\ \E p \in Injections(Len(hints)) :
          /\ \A i \in 1..Len(hints) : texts[i] = hints[p[i]].hintContent
          /\ \A i, j \in 1..Len(hints) :
                i < j => hints[p[i]].requestedAt <= hints[p[j]].requestedAt

\* C2: on resume with attempts and hints, extraHints of the index-0 attempt
\* is the hint contents in ascending requestedAt order, and every other
\* restored attempt has no extra hints.
ResumeHintsOnLatestOnly ==
    (Resumed /\ lastCurrent.progress.attempts # <<>>
             /\ lastCurrent.progress.hints # <<>>) =>
        /\ IsChronological(attempts[1].extraHints, lastCurrent.progress.hints)
        /\ \A i \in 2..Len(attempts) : attempts[i].extraHints = <<>>

\* hints arrived newest first and sit on the latest of several attempts in
\* the order they were requested
ResumeHintsOutOfOrderWitness ==
    /\ Resumed
    /\ Len(attempts) >= 2
    /\ Len(lastCurrent.progress.hints) = 2
    /\ lastCurrent.progress.hints[1].requestedAt > lastCurrent.progress.hints[2].requestedAt
    /\ attempts[1].extraHints = <<"h2", "h1">>

----------------------------------------------------------------------------
(* SpecSubmit: the guess form, from mounting the page to the success       *)
(* transition                                                              *)

\* the session answers this specification draws: failure, no session yet,
\* a session to resume with one attempt and one hint
SubmitCurrentResponses ==
    {FailedCurrent,
     CurrentResponse(TRUE, FALSE, FALSE, NoSession, 1, FALSE, EmptyProgress),
     CurrentResponse(TRUE, FALSE, TRUE, 1, 1, TRUE,
         [attempts |-> <<ServerAttempt(1, <<"a">>, 745, TRUE)>>,
          hints |-> <<[requestedAt |-> 1, hintContent |-> "h1"]>>])}

NextSubmit ==
    \/ Mount
    \/ Render
    \/ \E resp \in SubmitCurrentResponses : InitCurrentResolve(resp)
    \/ \E resp \in StartResponses : InitStartResolve(resp)
    \/ \E v \in Inputs : SetUserInput(v)
    \/ HandleSubmit
    \/ \E i \in 1..MaxInFlight, resp \in AttemptResponses : SubmitResolve(i, resp)
    \/ \E i \in 1..MaxAttempts : SuccessTimerFire(i)

SpecSubmit == InitPage /\ [][NextSubmit]_vars

\* C3: a submit of an empty or whitespace-only guess issues no
\* POST /api/game/attempt and leaves the timeline, the input buffer and the
\* loading flag unchanged.
BlankSubmitChangesNothing ==
    [][(HandleSubmit /\ Trim(view.userInput) = <<>>) =>
          UNCHANGED <<attemptReqs, attempts, userInput, loading>>]_vars

\* a whitespace-only guess was submitted on an idle form and nothing was sent
BlankSubmitWitness ==
    /\ lastOp = OpRecord("handleSubmit", TRUE, FALSE)
    /\ view.userInput = <<" ">>
    /\ ~view.loading
    /\ attemptReqs = <<>>
    /\ ~loading

\* C10: at most one POST /api/game/attempt is in flight at any time.
AtMostOneSubmissionInFlight == Len(attemptReqs) <= 1

\* C6: when a submission resolves with isCorrect, the transition it
\* schedules carries the length of the timeline the winning attempt was
\* just prepended to.
SuccessCountIsTimelineLength ==
    [][Len(timers') > Len(timers) =>
          timers'[Len(timers')].attempts = Len(attempts')]_vars

\* C7: the history a success transition carries when it fires is the
\* timeline of that moment, winning attempt first, as long as the count
\* carried with it.
SuccessHistoryIsFullTimeline ==
    [][(nav' # nav /\ nav'.to = "/result/success") =>
          /\ nav'.attemptHistory = attempts
          /\ nav'.attemptHistory # <<>>
          /\ nav'.attemptHistory[1].isCorrect
          /\ Len(nav'.attemptHistory) = nav'.attempts]_vars

\* the failure answer of POST /api/game/attempt
FailedAttempt == [ok |-> FALSE, data |-> AttemptResult(FALSE, FALSE, NoScore)]

\* C11: when POST /api/game/attempt fails, the step that handles the
\* failure leaves the timeline and the input buffer as they were, schedules
\* no success transition, and ends with the loading flag false.
FailedSubmitLeavesFormUnchanged ==
    [][(\E i \in 1..Len(attemptReqs) : SubmitResolve(i, FailedAttempt)) =>
          (UNCHANGED <<attempts, userInput, timers>> /\ ~loading')]_vars

\* a submission failed: the alert was shown, the guess is still in the
\* input, nothing was added to the timeline and the form is idle again
\* before the next render
FailedSubmitWitness ==
    /\ notice = "submit"
    /\ userInput = <<" ", "a", " ">>
    /\ attempts = <<>>
    /\ attemptReqs = <<>>
    /\ timers = <<>>
    /\ ~loading
    /\ view.loading

\* C25: every POST /api/game/attempt in flight carries the session id of
\* an adopted session; none is sent while initialization is pending or
\* after it failed, when gameData is null.
GuessBoundToAdoptedSession ==
    \A i \in 1..Len(attemptReqs) : attemptReqs[i].gameSessionId # NoSession

\* C27: while a success transition is pending (a submission for the
\* adopted session resolved with isCorrect and its delay runs) and the page
\* has rendered the winning attempt, no POST /api/game/attempt is issued.
NoGuessAfterCorrect ==
    [][(/\ timers # <<>>
        /\ view.gameData.gameSessionId # NoSession
        /\ view.attempts = attempts
        /\ view.loading = loading) =>
          Len(attemptReqs') <= Len(attemptReqs)]_vars

----------------------------------------------------------------------------
(* SpecHint: supplementary hints on a resumed or freshly played timeline   *)

\* the session answers this specification draws
HintCurrentResponses ==
    {CurrentResponse(TRUE, FALSE, FALSE, NoSession, 1, FALSE, EmptyProgress),
     CurrentResponse(TRUE, FALSE, TRUE, 1, 1, FALSE, EmptyProgress),
     CurrentResponse(TRUE, FALSE, TRUE, 1, 1, TRUE,
         [attempts |-> <<ServerAttempt(1, <<"a">>, 745, TRUE)>>,
          hints |-> <<>>])}

HintInputs == {<<" ", "a", " ">>}

HintAttemptResponses ==
    {[ok |-> TRUE, data |-> AttemptResult(FALSE, h, 745)] : h \in BOOLEAN}

NextHint ==
    \/ Mount
    \/ Render
    \/ \E resp \in HintCurrentResponses : InitCurrentResolve(resp)
    \/ \E resp \in StartResponses : InitStartResolve(resp)
    \/ \E v \in HintInputs : SetUserInput(v)
    \/ HandleSubmit
    \/ \E i \in 1..MaxInFlight, resp \in HintAttemptResponses : SubmitResolve(i, resp)
    \/ HandleRequestHint
    \/ \E resp \in HintResponses : HintResolve(resp)

SpecHint == InitPage /\ [][NextHint]_vars

\* C4: at most one POST /api/game/hint is in flight; a request made while
\* one is in flight is dropped.
AtMostOneHintInFlight == hintReqs <= 1

----------------------------------------------------------------------------
(* SpecAttach: hint responses arriving on a resumed timeline, which a      *)
(* second initialization may have emptied in the meantime                  *)

\* a session to resume with two attempts, and one without a progress object
AttachCurrentResponses ==
    {CurrentResponse(TRUE, FALSE, TRUE, 1, 1, FALSE, EmptyProgress),
     CurrentResponse(TRUE, FALSE, TRUE, 1, 1, TRUE,
         [attempts |-> <<ServerAttempt(1, <<"a">>, 745, TRUE),
                         ServerAttempt(2, <<"a", "a">>, 745, TRUE)>>,
          hints |-> <<>>])}

NextAttach ==
    \/ Mount
    \/ Remount
    \/ Render
    \/ \E resp \in AttachCurrentResponses : InitCurrentResolve(resp)
    \/ HandleRequestHint
    \/ \E resp \in HintResponses : HintResolve(resp)

SpecAttach == InitPage /\ [][NextAttach]_vars

\* C16: a successful hint response appends the hint text to the end of
\* extraHints of the index-0 attempt and changes nothing else of the
\* timeline; on an empty timeline the hint is dropped.
HintAppendsToLatestOnly ==
    [][\A resp \in HintResponses :
          (resp.ok /\ HintResolve(resp)) =>
             /\ Len(attempts') = Len(attempts)
             /\ attempts # <<>> =>
                   /\ attempts'[1].extraHints =
                          attempts[1].extraHints \o <<resp.hintText>>
                   /\ attempts'[1] =
                          [attempts[1] EXCEPT !.extraHints = attempts'[1].extraHints]
             /\ \A i \in 2..Len(attempts) : attempts'[i] = attempts[i]]_vars

\* two hints arrived one after the other for the latest of two attempts:
\* both sit on it in arrival order and the older attempt has none
TwoHintsOnLatestWitness ==
    /\ Len(attempts) = 2
    /\ attempts[1].extraHints = <<"h1", "h2">>
    /\ attempts[2].extraHints = <<>>
    /\ hintReqs = 0
    /\ ~hintLoading

----------------------------------------------------------------------------
(* SpecRanking: every caller of fetchRankings - the ranking effect on      *)
(* mount, re-render and re-run, the interval, and resolved submissions     *)

RankingCurrentResponses ==
    {FailedCurrent,
     CurrentResponse(TRUE, FALSE, FALSE, NoSession, 1, FALSE, EmptyProgress),
     CurrentResponse(TRUE, FALSE, TRUE, 1, 1, FALSE, EmptyProgress)}

RankingInputs == {<<" ", "a", " ">>}

RankingAttemptResponses ==
    {[ok |-> TRUE, data |-> AttemptResult(FALSE, TRUE, 745)]}

RankingRankResponses ==
    {[ok |-> FALSE, data |-> RankPayload(TRUE, <<>>, NoRank)],
     [ok |-> TRUE, data |-> RankPayload(FALSE, <<7>>, 3)]}

NextRanking ==
    \/ Mount
    \/ Remount
    \/ Unmount
    \/ Render
    \/ \E resp \in RankingCurrentResponses : InitCurrentResolve(resp)
    \/ \E resp \in StartResponses : InitStartResolve(resp)
    \/ \E v \in RankingInputs : SetUserInput(v)
    \/ HandleSubmit
    \/ \E i \in 1..MaxInFlight, resp \in RankingAttemptResponses : SubmitResolve(i, resp)
    \/ RankingTick
    \/ \E resp \in RankingRankResponses : RankResolve(resp)

SpecRanking == InitPage /\ [][NextRanking]_vars

\* C5: at most one GET /api/game/rankings/live is outstanding; a
\* fetchRankings call that arrives while one is outstanding issues nothing.
AtMostOneRankingRequest ==
    /\ rankReqs <= 1
    /\ rankReqs = 1 => fetchingRankingsRef

\* a fetchRankings call arrived while a request was outstanding and was skipped
RankingCallSkippedWitness ==
    /\ rankReqs = 1
    /\ fetchingRankingsRef
    /\ lastOp = OpRecord("fetchRankings", FALSE, FALSE)
    /\ rankingInterval # NoWord

\* C30: the ranking in-flight flag is true exactly while a ranking request
\* is outstanding; the step that resolves a request, with success or with
\* failure, clears it; and an interval tick that finds no request
\* outstanding issues one, so a failed or skipped poll does not stall the
\* polling of a mounted page.
RankingFlagTracksRequest ==
    [][/\ fetchingRankingsRef' <=> rankReqs' = 1
       /\ rankReqs' < rankReqs => ~fetchingRankingsRef'
       /\ (RankingTick /\ rankReqs = 0) => rankReqs' = 1
       /\ (rankingInterval # NoWord /\ rankReqs = 0) => ~fetchingRankingsRef]_vars

\* the only ranking request so far failed: nothing was delivered, the flag
\* is clear again and the interval is alive for the next tick
FailedPollClearedWitness ==
    /\ lifecycle = "active"
    /\ rankingInterval # NoWord
    /\ lastOp = OpRecord("fetchRankings", FALSE, TRUE)
    /\ rankReqs = 0
    /\ ~fetchingRankingsRef
    /\ rankings = <<>>
    /\ lastRanking.isNull

\* the step resumes a handleSubmit call with a result that was prepended to
\* the timeline, and every pending call had seen the session's dailyWordId
GuessAcceptedForKnownWord ==
    /\ Len(attemptReqs') < Len(attemptReqs)
    /\ Len(attempts') = Len(attempts) + 1
    /\ \A i \in DOMAIN attemptReqs : attemptReqs[i].dailyWordId # NoWord

\* C19: every successful guess submission for a session whose dailyWordId
\* is known issues a GET /api/game/rankings/live with its timeline update.
SubmissionIssuesRankingPoll ==
    [][GuessAcceptedForKnownWord => rankReqs' = rankReqs + 1]_vars

----------------------------------------------------------------------------
(* SpecInit: session initialization, from the runs of the mount effect to *)
(* the ranking polling an adopted session starts                           *)

\* answers of GET /api/game/current: failure, null, nothing started, a
\* started flag without a session id, and sessions to resume with no
\* progress object (for either of two daily words), an empty one, hints
\* only, and an attempt with a hint
InitCurrentResponses ==
    {FailedCurrent, NullCurrent,
     CurrentResponse(TRUE, FALSE, FALSE, NoSession, 1, FALSE, EmptyProgress),
     CurrentResponse(TRUE, FALSE, TRUE, NoSession, 1, FALSE, EmptyProgress),
     CurrentResponse(TRUE, FALSE, TRUE, 1, 1, FALSE, EmptyProgress),
     CurrentResponse(TRUE, FALSE, TRUE, 2, 2, FALSE, EmptyProgress),
     CurrentResponse(TRUE, FALSE, TRUE, 1, 1, TRUE, EmptyProgress),
     CurrentResponse(TRUE, FALSE, TRUE, 1, 1, TRUE,
         [attempts |-> <<>>,
          hints |-> <<[requestedAt |-> 1, hintContent |-> "h1"]>>]),
     CurrentResponse(TRUE, FALSE, TRUE, 1, 1, TRUE,
         [attempts |-> <<ServerAttempt(1, <<"a">>, 745, TRUE)>>,
          hints |-> <<[requestedAt |-> 1, hintContent |-> "h1"]>>])}

NextInit ==
    \/ Mount
    \/ Remount
    \/ Unmount
    \/ Render
    \/ \E resp \in InitCurrentResponses : InitCurrentResolve(resp)
    \/ \E resp \in StartResponses : InitStartResolve(resp)
    \/ RankingTick
    \/ \E resp \in RankResponses : RankResolve(resp)

SpecInit == InitPage /\ [][NextInit]_vars

\* the step resumes initializeGame with a usable answer of
\* GET /api/game/current, which lastCurrent holds afterwards
CurrentAnswered ==
    /\ initCurrent' < initCurrent
    /\ lastCurrent'.ok
    /\ ~lastCurrent'.isNull

\* the step resumes initializeGame with the session POST /api/game/start
\* created
StartAnswered ==
    \E resp \in StartResponses : resp.ok /\ InitStartResolve(resp)

\* the answer names a session that has started
ReportsSession(current) ==
    current.hasStarted /\ current.gameSessionId # NoSession

CurrentFailed == initCurrent' < initCurrent /\ ~lastCurrent'.ok

\* the step resumes initializeGame with a rejected POST /api/game/start
StartFailed ==
    \E resp \in StartResponses : ~resp.ok /\ InitStartResolve(resp)

\* C14: when GET /api/game/current or POST /api/game/start fails the page
\* shows the blocking notice and navigates to /main, and from then on no
\* session is held, the timeline is empty, and no ranking interval or
\* ranking request exists.
InitFailureEntersNoGameState ==
    [][/\ (CurrentFailed \/ StartFailed) =>
             (notice' = "init" /\ nav' = Navigate("/main", 0, <<>>))
       /\ nav'.to = "/main" =>
             /\ gameData' = NoData
             /\ attempts' = <<>>
             /\ rankingInterval' = NoWord
             /\ rankReqs' = 0]_vars

\* the answer names a session to resume and carries no attempts: the
\* progress object is absent, or its attempt list is empty
NoAttemptsToRestore(current) ==
    /\ current.ok
    /\ ~current.isNull
    /\ ReportsSession(current)
    /\ (~current.hasProgress \/ current.progress.attempts = <<>>)

\* C15: a resume whose progress object is absent, or has no attempts
\* whatever its hints, does not enter the failure path, adopts the
\* existing session and sets the timeline to the empty sequence.
ResumeWithoutAttemptsIsEmpty ==
    [][(initCurrent' < initCurrent /\ NoAttemptsToRestore(lastCurrent')) =>
          /\ nav' = nav
          /\ notice' = notice
          /\ gameData' = Session(lastCurrent'.gameSessionId,
                                 lastCurrent'.dailyWordId, TRUE)
          /\ attempts' = <<>>]_vars

\* a session was resumed from a progress object with hints and no
\* attempts: the page stays, holds the session, and the timeline is empty
ResumeHintsOnlyWitness ==
    /\ NoAttemptsToRestore(lastCurrent)
    /\ lastCurrent.hasProgress
    /\ lastCurrent.progress.hints # <<>>
    /\ gameData = Session(1, 1, TRUE)
    /\ attempts = <<>>
    /\ initCurrent = 0
    /\ nav = NoNav
    /\ notice = "none"

\* C17: the ranking list and my-rank record on display are those of the
\* most recent ranking fetch that succeeded (a null payload or an absent
\* field counts as empty), or the initial empty snapshot if none has.
RankingSnapshotIsLastSuccess ==
    /\ rankings = IF lastRanking.isNull THEN <<>> ELSE lastRanking.rankings
    /\ myLiveRank = IF lastRanking.isNull THEN NoRank ELSE lastRanking.myRank

\* a fetch delivered a list and a rank, both are on display and no request
\* is outstanding
RankingSnapshotWitness ==
    /\ lastRanking = RankPayload(FALSE, <<7>>, 3)
    /\ rankings = <<7>>
    /\ myLiveRank = 3
    /\ rankReqs = 0
    /\ ~fetchingRankingsRef
    /\ rankingInterval # NoWord

\* the step ran the ranking effect: on a run of the effects, or at a render
\* that found gameData?.dailyWordId changed
RankingEffectRan == effectRuns' > effectRuns \/ effectDep' # effectDep

\* C18: no ranking request is issued while the session's dailyWordId is
\* unknown; when the ranking effect runs for a known dailyWordId the
\* interval polls that id and a request is outstanding at once (issued by
\* that run unless one was outstanding already); an interval exists only
\* on a mounted page and only for the dailyWordId of the last effect run,
\* so a tick after an unmount or a change of id issues nothing.
RankingPollingFollowsLifecycle ==
    [][/\ (rankReqs' > rankReqs) => gameData.dailyWordId # NoWord
       /\ (RankingEffectRan /\ effectDep' # NoWord) =>
             /\ rankingInterval' = effectDep'
             /\ rankReqs' >= 1
             /\ ~fetchingRankingsRef => rankReqs' = rankReqs + 1
       /\ rankingInterval' # NoWord =>
             (lifecycle' = "active" /\ rankingInterval' = effectDep')
       /\ RankingTick => lifecycle = "active"
       /\ lifecycle = "gone" => rankReqs' <= rankReqs]_vars

\* polling ran for a known dailyWordId and delivered a list; the page was
\* unmounted and no interval is left
PollingCancelledWitness ==
    /\ lifecycle = "gone"
    /\ gameData.dailyWordId # NoWord
    /\ effectDep = gameData.dailyWordId
    /\ rankings = <<7>>
    /\ rankingInterval = NoWord

\* C12: at most one session initialization (GET /api/game/current, then an
\* optional POST /api/game/start) is pending on a component instance,
\* however often its mount effect is cleaned up and run again.
AtMostOneInitializationPending == initCurrent + initStart <= 1

----------------------------------------------------------------------------
(* Auth holder (AuthProvider) *)

\* a guard that does not wait for the status probe
PrivateRouteNoPlaceholder(value) ==
    IF value.user = NoUser
    THEN [element |-> "Navigate", to |-> "/login", replace |-> TRUE]
    ELSE [element |-> "children", to |-> "", replace |-> FALSE]

\* PrivateRoute for the context value of a provider render, where
\* isAuthenticated is !!user
PrivateRoute(value) ==
    IF value.loading
    THEN [element |-> "placeholder", to |-> "", replace |-> FALSE]
    ELSE IF value.user = NoUser
    THEN [element |-> "Navigate", to |-> "/login", replace |-> TRUE]
    ELSE [element |-> "children", to |-> "", replace |-> FALSE]

\* checkAuthStatus without the checkingRef test
CheckAuthStatusUnguarded(closureUser) ==
    IF closureUser # NoUser
    THEN /\ authLoading' = FALSE
         /\ UNCHANGED <<checkingRef, probeReqs>>
    ELSE /\ checkingRef' = TRUE
         /\ probeReqs' = probeReqs + 1
         /\ UNCHANGED authLoading

\* checkAuthStatus up to its await, for the user its closure captured
CheckAuthStatus(closureUser) ==
    IF checkingRef
    THEN UNCHANGED <<checkingRef, probeReqs, authLoading>>
    ELSE IF closureUser # NoUser
    THEN /\ authLoading' = FALSE
         /\ UNCHANGED <<checkingRef, probeReqs>>
    ELSE /\ checkingRef' = TRUE
         /\ probeReqs' = probeReqs + 1
         /\ UNCHANGED authLoading

\* first commit of the provider: the effect calls checkAuthStatus
AuthMount ==
    /\ ~authView.mounted
    /\ authView' = AuthSnapshot(TRUE)
    /\ CheckAuthStatus(user)
    /\ UNCHANGED <<user, loginReqs, recheckTimers, recheckReqs, logoutReqs,
                   serverSession, authLog>>
    /\ guardOutput' = PrivateRoute(authView')
    /\ UNCHANGED <<gameVars, shellVars>>

\* a re-render of the provider; checkAuthStatus depends on [user], so a
\* changed user makes a new callback and the effect calls it
AuthRender ==
    /\ authView.mounted
    /\ authView # AuthSnapshot(TRUE)
    /\ authView' = AuthSnapshot(TRUE)
    /\ IF user # authView.user
       THEN CheckAuthStatus(user)
       ELSE UNCHANGED <<checkingRef, probeReqs, authLoading>>
    /\ UNCHANGED <<user, loginReqs, recheckTimers, recheckReqs, logoutReqs,
                   serverSession, authLog>>
    /\ guardOutput' = PrivateRoute(authView')
    /\ UNCHANGED <<gameVars, shellVars>>

\* continuation of checkAuthStatus after GET /api/auth/me; the server
\* answers with the session's identity, or the call fails
ProbeResolve(ok) ==
    /\ probeReqs > 0
    /\ ok => serverSession # NoUser
    /\ probeReqs' = probeReqs - 1
    /\ user' = IF ok THEN serverSession ELSE NoUser
    /\ authLoading' = FALSE
    /\ checkingRef' = FALSE
    /\ authLog' = AuthRecord("probe", TRUE)
    /\ UNCHANGED <<authView, loginReqs, recheckTimers, recheckReqs, logoutReqs,
                   serverSession>>
    /\ UNCHANGED <<guardOutput, gameVars, shellVars>>

\* login(email, password) up to its await (the login page is public)
LoginCall ==
    /\ authView.mounted
    /\ loginReqs + recheckTimers + recheckReqs < MaxInFlight
    /\ loginReqs' = loginReqs + 1
    /\ UNCHANGED <<user, authLoading, checkingRef, authView, probeReqs,
                   recheckTimers, recheckReqs, logoutReqs, serverSession,
                   authLog>>
    /\ UNCHANGED <<guardOutput, gameVars, shellVars>>

\* continuation of login after POST /api/auth/login: rejected, accepted
\* with the identity in the body, or accepted without it
LoginResolve(u, ok, hasData) ==
    /\ loginReqs > 0
    /\ loginReqs' = loginReqs - 1
    /\ IF ~ok
       THEN /\ authLog' = AuthRecord("loginFailed", authLog.probed)
            /\ UNCHANGED <<user, authLoading, recheckTimers, serverSession>>
       ELSE /\ serverSession' = u
            /\ authLog' = AuthRecord("login", authLog.probed)
            /\ IF hasData
               THEN /\ user' = u
                    /\ authLoading' = FALSE
                    /\ UNCHANGED recheckTimers
               ELSE /\ recheckTimers' = recheckTimers + 1
                    /\ UNCHANGED <<user, authLoading>>
    /\ UNCHANGED <<checkingRef, authView, probeReqs, recheckReqs, logoutReqs>>
    /\ UNCHANGED <<guardOutput, gameVars, shellVars>>

\* login's 300 ms timer fires: GET /api/auth/me is issued
RecheckTimerFire ==
    /\ recheckTimers > 0
    /\ recheckTimers' = recheckTimers - 1
    /\ recheckReqs' = recheckReqs + 1
    /\ UNCHANGED <<user, authLoading, checkingRef, authView, probeReqs,
                   loginReqs, logoutReqs, serverSession, authLog>>
    /\ UNCHANGED <<guardOutput, gameVars, shellVars>>

\* continuation of login's re-check after GET /api/auth/me
RecheckResolve(ok) ==
    /\ recheckReqs > 0
    /\ ok => serverSession # NoUser
    /\ recheckReqs' = recheckReqs - 1
    /\ user' = IF ok THEN serverSession ELSE user
    /\ authLoading' = FALSE
    /\ authLog' = AuthRecord("recheck", authLog.probed)
    /\ UNCHANGED <<checkingRef, authView, probeReqs, loginReqs, recheckTimers,
                   logoutReqs, serverSession>>
    /\ UNCHANGED <<guardOutput, gameVars, shellVars>>

\* logout() up to its await; the pages that call it are behind PrivateRoute
LogoutCall ==
    /\ authView.mounted
    /\ ~authView.loading
    /\ authView.user # NoUser
    /\ logoutReqs < MaxInFlight
    /\ logoutReqs' = logoutReqs + 1
    /\ UNCHANGED <<user, authLoading, checkingRef, authView, probeReqs,
                   loginReqs, recheckTimers, recheckReqs, serverSession,
                   authLog>>
    /\ UNCHANGED <<guardOutput, gameVars, shellVars>>

\* logout without try/catch/finally: a rejected call leaves the identity
\* and rejects
LogoutSettleUncaught(ok) ==
    IF ok THEN [user |-> NoUser, op |-> "logout"]
    ELSE [user |-> user, op |-> "logoutRejected"]

\* what logout's try/catch/finally leaves: the user, and how logout() settled
LogoutSettle(ok) == [user |-> NoUser, op |-> "logout"]

\* continuation of logout after POST /api/auth/logout; a call that fails
\* may or may not have invalidated the server-side session
LogoutResolve(ok, invalidated) ==
    /\ logoutReqs > 0
    /\ ok => invalidated
    /\ logoutReqs' = logoutReqs - 1
    /\ serverSession' = IF invalidated THEN NoUser ELSE serverSession
    /\ user' = LogoutSettle(ok).user
    /\ authLog' = AuthRecord(LogoutSettle(ok).op, authLog.probed)
    /\ UNCHANGED <<authLoading, checkingRef, authView, probeReqs, loginReqs,
                   recheckTimers, recheckReqs>>
    /\ UNCHANGED <<guardOutput, gameVars, shellVars>>

NextAuth ==
    \/ AuthMount
    \/ AuthRender
    \/ \E ok \in BOOLEAN : ProbeResolve(ok)
    \/ LoginCall
    \/ \E u \in Users, ok \in BOOLEAN, hasData \in BOOLEAN : LoginResolve(u, ok, hasData)
    \/ RecheckTimerFire
    \/ \E ok \in BOOLEAN : RecheckResolve(ok)
    \/ LogoutCall
    \/ \E ok \in BOOLEAN, invalidated \in BOOLEAN : LogoutResolve(ok, invalidated)

SpecAuth == Init /\ [][NextAuth]_vars

\* C8: whenever logout() completes, resolved or rejected call alike, the
\* holder's user is null (so isAuthenticated is false) and logout() itself
\* has not rejected.
LogoutAlwaysClearsIdentity ==
    [][logoutReqs' < logoutReqs =>
          (user' = NoUser /\ authLog'.op = "logout")]_vars

\* a logout whose server call failed completed: the server still holds the
\* session, the holder does not hold the identity
LogoutRejectedWitness ==
    /\ authLog.op = "logout"
    /\ user = NoUser
    /\ serverSession # NoUser
    /\ logoutReqs = 0

\* the step runs the provider's effect, which calls checkAuthStatus: the
\* first commit, or a render that found user changed
CheckInvoked ==
    \/ ~authView.mounted /\ authView'.mounted
    \/ authView.mounted /\ authView' # authView /\ user # authView.user

\* C21: at most one probe issued by checkAuthStatus is outstanding; a call
\* while one is outstanding issues no request; a call while an identity is
\* cached issues no request and leaves loading false.
ProbeGuardedAgainstReentry ==
    [][/\ probeReqs' <= 1
       /\ probeReqs' = 1 => checkingRef'
       /\ (CheckInvoked /\ probeReqs > 0) => probeReqs' = probeReqs
       /\ (CheckInvoked /\ user # NoUser) =>
             (probeReqs' = probeReqs /\ ~authLoading')]_vars

\* the effect called checkAuthStatus for a cached identity while the first
\* probe was still outstanding, and no second probe was issued
ProbeSkippedWitness ==
    /\ authView.mounted
    /\ authView.user # NoUser
    /\ user = authView.user
    /\ probeReqs = 1
    /\ checkingRef
    /\ ~authLoading

\* C22: the guard returns the protected content only for a context value
\* with loading false and a user; with loading true it returns the
\* placeholder, neither content nor redirect; with loading false and no
\* user it returns a redirect to /login that replaces the history entry.
GuardAdmitsOnlyAuthenticated ==
    /\ guardOutput.element = "children" =>
          (~authView.loading /\ authView.user # NoUser)
    /\ (authView.mounted /\ authView.loading) =>
          guardOutput.element = "placeholder"
    /\ (authView.mounted /\ ~authView.loading /\ authView.user = NoUser) =>
          guardOutput = [element |-> "Navigate", to |-> "/login", replace |-> TRUE]

\* the probe found no session: the guard, which showed the placeholder
\* while the probe was outstanding, now redirects
GuardRedirectsWitness ==
    /\ authLog = AuthRecord("probe", TRUE)
    /\ authView.mounted
    /\ ~authView.loading
    /\ authView.user = NoUser
    /\ guardOutput.element = "Navigate"

\* C20: when login() resolves with success the holder holds the identity:
\* user is set (isAuthenticated is true) in the state the caller sees next.
LoginSuccessHoldsIdentity ==
    [][(loginReqs' < loginReqs /\ authLog'.op = "login") => user' # NoUser]_vars

\* C26: a status probe that resolves while the holder has an identity (the
\* probe was started before the login that set it) leaves that identity
\* in place, so the holder remains authenticated.
ProbeNeverUndoesLogin ==
    [][(probeReqs' < probeReqs /\ user # NoUser) => user' = user]_vars

\* C9: once the initial status probe has resolved, the identity changes
\* only in a step of login or logout; after a logout the holder stays
\* unauthenticated until a login succeeds.
IdentityChangesOnlyByLoginLogout ==
    [][(authLog.probed /\ user' # user) =>
          (loginReqs' < loginReqs \/ recheckReqs' < recheckReqs
             \/ logoutReqs' < logoutReqs)]_vars

----------------------------------------------------------------------------
(* SpecLeave: leaving the game page while a submission or its success      *)
(* transition is pending                                                   *)

\* the back button of the header: onClick={() => navigate('/main')}
HandleBack ==
    /\ OnScreen
    /\ nav' = Navigate("/main", 0, <<>>)
    /\ UNCHANGED <<lifecycle, initializingRef, fetchingRankingsRef, gameData,
                   userInput, attempts, rankings, myLiveRank, loading,
                   hintLoading, view, rankingInterval, effectDep, effectRuns,
                   initCurrent, initStart, attemptReqs, hintReqs, rankReqs,
                   timers, notice, lastOp>>
    /\ UNCHANGED <<lastCurrent, lastRanking, hintTargets, authVars, shellVars>>

\* a session to resume that has no progress yet
LeaveCurrentResponses ==
    {CurrentResponse(TRUE, FALSE, TRUE, 1, 1, FALSE, EmptyProgress)}

LeaveInputs == {<<"a">>}

\* the guess is correct
LeaveAttemptResponses ==
    {[ok |-> TRUE, data |-> AttemptResult(TRUE, TRUE, 745)]}

NextLeave ==
    \/ Mount
    \/ Unmount
    \/ HandleBack
    \/ Render
    \/ \E resp \in LeaveCurrentResponses : InitCurrentResolve(resp)
    \/ \E v \in LeaveInputs : SetUserInput(v)
    \/ HandleSubmit
    \/ \E i \in 1..MaxInFlight, resp \in LeaveAttemptResponses : SubmitResolve(i, resp)
    \/ \E i \in 1..MaxAttempts : SuccessTimerFire(i)

SpecLeave == InitPage /\ [][NextLeave]_vars

\* C28: once the game page has unmounted, nothing it scheduled navigates:
\* a pending success-transition timer does not move the user to
\* /result/success after the page is gone.
NoNavigationAfterUnmount ==
    [][lifecycle = "gone" => nav' = nav]_vars

----------------------------------------------------------------------------
(* HTTP client: the response interceptor of the axios instance *)

\* the paths of the route table
Paths == {"/", "/login", "/signup", "/main", "/game", "/leaderboard",
          "/profile", "/result/success", "/result/fail"}

\* error.response?.status of a failed response; 0 stands for an error
\* without a response (network failure, timeout)
ErrorStatuses == {0, 400, 401, 403, 404, 500}

\* the error handler without the test of the current path
OnRejectedNoLoopGuard(status, currentPath) ==
    [status |-> status, at |-> currentPath, failed |-> TRUE,
     redirected |-> status = 401,
     settled |-> "rejected"]

\* the error handler: whether it assigns window.location.href, and how the
\* promise it returns settles
OnRejected(status, currentPath) ==
    [status |-> status, at |-> currentPath, failed |-> TRUE,
     redirected |-> /\ status = 401
                    /\ currentPath # "/login" /\ currentPath # "/signup",
     settled |-> "rejected"]

\* the success handler returns the response
OnFulfilled(currentPath) ==
    [status |-> 200, at |-> currentPath, failed |-> FALSE,
     redirected |-> FALSE, settled |-> "fulfilled"]

\* the router moves to another route of the table
ClientNavigate(path) ==
    /\ path # pathname
    /\ pathname' = path
    /\ UNCHANGED <<lastResponse, mainVars, gameVars, authVars>>

\* a request of the instance fails with the given status
ResponseFailed(status) ==
    /\ lastResponse' = OnRejected(status, pathname)
    /\ pathname' = IF lastResponse'.redirected THEN "/login" ELSE pathname
    /\ UNCHANGED <<mainVars, gameVars, authVars>>

\* a request of the instance succeeds
ResponseSucceeded ==
    /\ lastResponse' = OnFulfilled(pathname)
    /\ UNCHANGED <<pathname, mainVars, gameVars, authVars>>

NextClient ==
    \/ \E path \in Paths : ClientNavigate(path)
    \/ \E status \in ErrorStatuses : ResponseFailed(status)
    \/ ResponseSucceeded

SpecClient == InitPage /\ [][NextClient]_vars

\* C23: a failed response is followed by the redirect to /login exactly
\* when its status is 401 and the path it arrived at is neither /login nor
\* /signup; it leaves the path alone otherwise, and the error is rejected
\* to the caller in every case.
RedirectIffUnauthorizedOffLoginPages ==
    [][(lastResponse' # lastResponse /\ lastResponse'.failed) =>
          /\ lastResponse'.at = pathname
          /\ lastResponse'.redirected <=>
                (lastResponse'.status = 401 /\ pathname \notin {"/login", "/signup"})
          /\ lastResponse'.settled = "rejected"
          /\ pathname' = IF lastResponse'.redirected THEN "/login" ELSE pathname]_vars

\* a 401 arrived on the login page: no redirect, the error is rejected
UnauthorizedOnLoginWitness ==
    /\ lastResponse.failed
    /\ lastResponse.status = 401
    /\ lastResponse.at = "/login"
    /\ ~lastResponse.redirected
    /\ lastResponse.settled = "rejected"
    /\ pathname = "/login"

----------------------------------------------------------------------------
(* Dashboard (Main component): the start button.  The token pool panel    *)
(* has a state of its own that the button does not read; it is left out.  *)
(* The dashboard's handlers read isStarting and the two data objects; a   *)
(* render follows every state change before the next click.               *)

\* status of the latest entry of GET /api/member/recent-games, "none" for
\* an empty list
LatestStatuses == {"none", "SUCCESS", "FAIL", "IN_PROGRESS"}

\* gameInfo of GET /api/game/current: session id (NoSession for null) and status
CurrentGameInfos ==
    [sessionId : {NoSession, 1}, status : {"IN_PROGRESS", "SUCCESS", "FAIL"}]

\* the object fetchDashboardData stores; only the field the start handler
\* reads is kept, with the latest status it is computed from
DashboardOf(latest) ==
    [isNull |-> FALSE, latest |-> latest,
     hasPlayedToday |-> latest # "none" /\ (latest = "SUCCESS" \/ latest = "FAIL")]

\* the object fetchCurrentGameData stores for a gameInfo
CurrentGameOf(gameInfo) ==
    [isNull |-> FALSE, hasSession |-> gameInfo.sessionId # NoSession,
     status |-> gameInfo.status,
     isCompleted |-> gameInfo.status = "SUCCESS" \/ gameInfo.status = "FAIL"]

\* the object the catch block of fetchCurrentGameData stores
CurrentGameFailed ==
    [isNull |-> FALSE, hasSession |-> FALSE, status |-> "none",
     isCompleted |-> FALSE]

\* canStartGame()
canStartGame ==
    IF isStarting THEN FALSE
    ELSE IF currentGameData.isNull THEN FALSE
    ELSE ~currentGameData.isCompleted

\* the page is past `if (loading || !currentGameData)` and shows the button
MainLoaded == mainMounted /\ ~mainLoading /\ ~currentGameData.isNull

\* disabled attribute of the start button
ButtonDisabled == ~canStartGame

\* text of the start button: "tomorrow" is '내일 만나요~!', "preparing" is
\* '게임 준비 중...', "start" is '게임 시작하기'
ButtonLabel ==
    IF canStartGame THEN "tomorrow"
    ELSE IF isStarting THEN "preparing" ELSE "start"

\* handleStartGame gets past its first line
StartPasses ==
    ~(isStarting \/ (~dashboardData.isNull /\ dashboardData.hasPlayedToday))

\* the mount effect: the two fetches start (a fresh instance)
MainMount ==
    /\ ~mainMounted
    /\ mainMounted' = TRUE
    /\ dashboardData' = NoDashboard
    /\ currentGameData' = NoCurrentGame
    /\ mainLoading' = TRUE
    /\ isStarting' = FALSE
    /\ dashboardReqs' = "statistics"
    /\ currentReqs' = 1
    /\ startTimers' = 0
    /\ mainNav' = "none"
    /\ UNCHANGED <<clientVars, gameVars, authVars>>

\* the route changes; what the instance left pending no longer acts on it
MainUnmount ==
    /\ mainMounted
    /\ mainMounted' = FALSE
    /\ dashboardReqs' = "idle"
    /\ currentReqs' = 0
    /\ startTimers' = 0
    /\ UNCHANGED <<dashboardData, currentGameData, mainLoading, isStarting,
                   mainNav, clientVars, gameVars, authVars>>

\* fetchDashboardData resumes after GET /api/member/statistics
StatisticsResolve(ok) ==
    /\ mainMounted
    /\ dashboardReqs = "statistics"
    /\ IF ok
       THEN /\ dashboardReqs' = "recent-games"
            /\ UNCHANGED mainLoading
       ELSE /\ dashboardReqs' = "idle"
            /\ mainLoading' = FALSE
    /\ UNCHANGED <<mainMounted, dashboardData, currentGameData, isStarting,
                   currentReqs, startTimers, mainNav, clientVars, gameVars,
                   authVars>>

\* fetchDashboardData resumes after GET /api/member/recent-games
RecentGamesResolve(ok, latest) ==
    /\ mainMounted
    /\ dashboardReqs = "recent-games"
    /\ dashboardReqs' = "idle"
    /\ dashboardData' = IF ok THEN DashboardOf(latest) ELSE dashboardData
    /\ mainLoading' = FALSE
    /\ UNCHANGED <<mainMounted, currentGameData, isStarting, currentReqs,
                   startTimers, mainNav, clientVars, gameVars, authVars>>

\* fetchCurrentGameData resumes after GET /api/game/current
CurrentGameResolve(ok, gameInfo) ==
    /\ mainMounted
    /\ currentReqs > 0
    /\ currentReqs' = currentReqs - 1
    /\ currentGameData' = IF ok THEN CurrentGameOf(gameInfo) ELSE CurrentGameFailed
    /\ UNCHANGED <<mainMounted, dashboardData, mainLoading, isStarting,
                   dashboardReqs, startTimers, mainNav, clientVars, gameVars,
                   authVars>>

\* a click on the start button; a disabled button delivers none
handleStartGame ==
    /\ MainLoaded
    /\ ~ButtonDisabled
    /\ IF ~StartPasses
       THEN UNCHANGED <<isStarting, mainNav, startTimers>>
       ELSE /\ isStarting' = TRUE
            /\ mainNav' = "/game"
            /\ startTimers' = startTimers + 1
    /\ UNCHANGED <<mainMounted, dashboardData, currentGameData, mainLoading,
                   dashboardReqs, currentReqs, clientVars, gameVars, authVars>>

\* the 1000 ms timer of handleStartGame
StartTimerFire ==
    /\ mainMounted
    /\ startTimers > 0
    /\ startTimers' = startTimers - 1
    /\ isStarting' = FALSE
    /\ UNCHANGED <<mainMounted, dashboardData, currentGameData, mainLoading,
                   dashboardReqs, currentReqs, mainNav, clientVars, gameVars,
                   authVars>>

NextMain ==
    \/ MainMount
    \/ MainUnmount
    \/ \E ok \in BOOLEAN : StatisticsResolve(ok)
    \/ \E ok \in BOOLEAN, latest \in LatestStatuses : RecentGamesResolve(ok, latest)
    \/ \E ok \in BOOLEAN, gameInfo \in CurrentGameInfos : CurrentGameResolve(ok, gameInfo)
    \/ handleStartGame
    \/ StartTimerFire

SpecMain == InitPage /\ [][NextMain]_vars

\* C24: in every loaded state of the dashboard the start button is enabled
\* exactly when a click on it navigates to /game, it shows the start-game
\* label exactly when it is enabled, and it shows the 'see you tomorrow'
\* label exactly when today's game is completed.
StartButtonConsistent ==
    MainLoaded =>
       /\ ~ButtonDisabled <=> (~ButtonDisabled /\ StartPasses)
       /\ ButtonLabel = "start" <=> ~ButtonDisabled
       /\ ButtonLabel = "tomorrow" <=> currentGameData.isCompleted

====
